---- MODULE Spec2Model ----
(***************************************************************************)
(* DropboxCloud: browser-side OAuth2 (PKCE) token lifecycle and the        *)
(* single-request / chunked upload protocol, as a state machine.           *)
(*                                                                         *)
(* One action is one event-loop task of the page: the code that runs from  *)
(* one suspension point (a remote call's response, a window message, a     *)
(* timer, a public call) to the next, microtasks included.                 *)
(***************************************************************************)
EXTENDS Integers, Sequences, FiniteSets, TLC

\* ------------------------------------------------------------------ bounds
MaxAttempts == 2      \* state tokens (crypto.randomUUID) issued in one run
MaxCalls == 2         \* public calls started in one run
MaxLoads == 1         \* page loads after the first
MaxToken == 1         \* distinct token bundles the server hands out
MaxExtraChunks == 1   \* chunks beyond the smallest chunked file
MaxUploads == 1       \* storage operations called on the page of UploadSpec

\* ------------------------------------------------------- program constants
CHUNK_SIZE == 12 * 1024 * 1024
FILE_SIZE_LIMIT == 150 * 1024 * 1024
OAUTH_TIMEOUT == 120

\* --------------------------------------------------------------- JS values
Null == 0                 \* null: sessionStorage.getItem miss, saveToken(null)
Undefined == 0 - 1        \* undefined: `?.value` of a missing property
OtherWindow == Null       \* event.source of a message no popup of ours sent
Slots == {1, 2}           \* call slots (async invocations that may overlap)
Tokens == 1..MaxToken
StateTokens == 1..MaxAttempts
NoCode == "none"          \* URLSearchParams.get('code') of a URL without one
Codes == {NoCode, "ABC"}
Timeouts == {Null, 1}     \* the `timeout` argument: null (the default), or seconds
NoErr == [msg |-> "", cause |-> "", detail |-> FALSE]

\* The `state` query parameter of a redirect URL, by what JSON.parse makes of
\* it: an object whose own `state` property is `field` (Undefined: the
\* object has no such property), or something that is no object.
StateParams ==
    [kind : {"obj"}, field : {Undefined, Null} \cup StateTokens]
        \cup {[kind |-> "bad", field |-> Undefined]}

NoParams == [has |-> FALSE, code |-> NoCode, state |-> [kind |-> "bad", field |-> Undefined]]
RedirectURLs == [has : {TRUE}, code : Codes, state : StateParams]
URLs == {NoParams} \cup RedirectURLs

VARIABLES
    cfg,            \* constructor arguments: tokenStorage?, offlineToken, popupRedirect
    conc,           \* how many public calls the caller lets overlap
    persisted,      \* what the token-storage capability holds
    ssState,        \* sessionStorage["OAuthState-<appId>"]
    ssVerifier,     \* sessionStorage["CodeVerifier-<appId>"]
    url,            \* window.location of the page
    page,           \* "loaded", or "replaced" after window.location.replace
    loads,          \* page loads so far
    accessToken,    \* dbx.auth access token
    refreshToken,   \* dbx.auth refresh token
    expiresAt,      \* dbx.auth access-token expiry
    codeVerifier,   \* dbx.auth PKCE verifier
    nstate,         \* state tokens issued so far
    ncalls,         \* public calls started so far
    att,            \* popup attempts, by state token: promise, popup, timer
    listeners,      \* window 'message' listeners, in registration order
    win,            \* the open popup window named appId (Null: none)
    call            \* the public calls, by slot

vars == <<cfg, conc, persisted, ssState, ssVerifier, url, page, loads,
          accessToken, refreshToken, expiresAt, codeVerifier, nstate, ncalls,
          att, listeners, win, call>>

\* -------------------------------------------------------------- helpers
Ops == {"OAuth", "fetchFileList", "downloadFile", "uploadFile"}

\* File sizes that exercise both upload paths and both chunk-boundary cases.
MinChunks == (FILE_SIZE_LIMIT + CHUNK_SIZE - 1) \div CHUNK_SIZE
FileSizes ==
    {0, 1, FILE_SIZE_LIMIT - 1, FILE_SIZE_LIMIT, FILE_SIZE_LIMIT + 1}
        \cup {k * CHUNK_SIZE : k \in MinChunks..(MinChunks + MaxExtraChunks)}
        \cup {k * CHUNK_SIZE + 1 : k \in MinChunks..(MinChunks + MaxExtraChunks - 1)}

NoAttempt == [status |-> "none", popup |-> Null, timer |-> FALSE,
              cleanups |-> 0, events |-> <<>>, owner |-> 0, late |-> 0,
              seconds |-> 0, delay |-> 0, named |-> 0, heard |-> 0]

\* What #OAuthRedirectHandler saw and did, the last time it ran for a call.
NoHandled == [chan |-> "none", expected |-> Null, got |-> Null, outcome |-> "none",
              code |-> NoCode]

IdleCall == [pc |-> "idle", op |-> "OAuth", targ |-> Null, timeout |-> OAUTH_TIMEOUT,
             offline |-> FALSE, popup |-> FALSE,
             st |-> Null, code |-> NoCode, auth |-> "none", err |-> NoErr,
             fx |-> {}, snap |-> <<Null, Null, Null>>, saves |-> <<>>,
             rr |-> "none", refresh |-> "none", check |-> "none", echo |-> "none",
             size |-> 0, log |-> <<>>, session |-> Null, handled |-> NoHandled,
             seen |-> {}, info |-> <<Null, Null>>, navss |-> <<Null, Null>>,
             pre |-> <<Null, Null, Null, Null, 0>>]

\* constructor: this.#dbx.auth.setRefreshToken(tokenStorage?.loadToken())
LoadToken(storage, stored) == IF storage THEN stored ELSE Null

Init ==
    /\ cfg \in [storage : BOOLEAN, offline : BOOLEAN, popup : BOOLEAN]
    /\ conc = 1
    /\ persisted \in (IF cfg.storage THEN {Null} \cup Tokens ELSE {Null})
    /\ ssState = Null
    /\ ssVerifier = Null
    /\ url = NoParams
    /\ page = "loaded"
    /\ loads = 0
    /\ accessToken = Null
    /\ refreshToken = LoadToken(cfg.storage, persisted)
    /\ expiresAt = Null
    /\ codeVerifier = Null
    /\ nstate = 0
    /\ ncalls = 0
    /\ att = [a \in StateTokens |-> NoAttempt]
    /\ listeners = <<>>
    /\ win = Null
    /\ call = [p \in Slots |-> IdleCall]

\* ------------------------------------------------------- pure functions

\* catchCallback(message)(reason): the Error it throws; a DropboxResponseError
\* gets its code and description appended to the message.
catchCallback(message, reason) ==
    [msg |-> message, cause |-> reason,
     detail |-> reason \in {"invalid_grant", "response_error"}]

Fail(c, message, reason) ==
    [c EXCEPT !.pc = "failed", !.err = catchCallback(message, reason)]

\* `OAuthState === redirectState`
StateMatchesLoose(OAuthState, redirectState) ==
    \/ OAuthState = redirectState
    \/ {OAuthState, redirectState} \subseteq {Null, Undefined}

StateMatches(OAuthState, redirectState) == OAuthState = redirectState

\* #OAuthRedirectHandler: what it does with the promise's resolvers.
\* JSON.parse / getOwnPropertyDescriptor throw when the parameter is no object.
OAuthRedirectHandlerDropsCode(OAuthState, redirectURL) ==
    IF redirectURL.state.kind = "bad"
    THEN [outcome |-> "throw", reason |-> "TypeError", code |-> NoCode]
    ELSE IF StateMatches(OAuthState, redirectURL.state.field)
         THEN [outcome |-> "resolve", reason |-> "", code |-> NoCode]
         ELSE [outcome |-> "reject", reason |-> "mismatch", code |-> NoCode]

OAuthRedirectHandler(OAuthState, redirectURL) ==
    IF redirectURL.state.kind = "bad"
    THEN [outcome |-> "throw", reason |-> "TypeError", code |-> NoCode]
    ELSE IF StateMatches(OAuthState, redirectURL.state.field)
         THEN [outcome |-> "resolve", reason |-> "", code |-> redirectURL.code]
         ELSE [outcome |-> "reject", reason |-> "mismatch", code |-> NoCode]

Handled(chan, OAuthState, redirectURL, h) ==
    [chan |-> chan, expected |-> OAuthState, got |-> redirectURL.state.field,
     outcome |-> h.outcome, code |-> h.code]

\* Math.ceil(file.size / CHUNK_SIZE)
NumChunks(size) == (size + CHUNK_SIZE - 1) \div CHUNK_SIZE

RemoteCall(kind, offset, session, bytes) ==
    [kind |-> kind, offset |-> offset, session |-> session, bytes |-> bytes,
     status |-> "inflight"]

\* file.slice(start, end).size: both ends are clamped to the file's size.
SliceSizeUnclamped(size, start, end) == end - start

SliceSize(size, start, end) ==
    LET lo == IF start < size THEN start ELSE size
        hi == IF end < size THEN end ELSE size
    IN  IF hi > lo THEN hi - lo ELSE 0

\* uploadFile line 379: the path taken, and the first remote call of it.
UsesSmallUploadLoose(size) == size <= FILE_SIZE_LIMIT

UsesSmallUpload(size) == size < FILE_SIZE_LIMIT

\* What a public operation does once `await this.OAuth(timeout)` returned.
StorageStep(c, outcome) ==
    LET d == [c EXCEPT !.auth = outcome]
    IN  CASE d.op = "OAuth" -> [d EXCEPT !.pc = "done"]
          [] d.op = "fetchFileList" ->
                [d EXCEPT !.pc = "storage", !.log = <<RemoteCall("filesListFolder", 0, Null, 0)>>]
          [] d.op = "downloadFile" ->
                [d EXCEPT !.pc = "storage", !.log = <<RemoteCall("filesDownload", 0, Null, 0)>>]
          [] OTHER ->
                IF UsesSmallUpload(d.size)
                THEN [d EXCEPT !.pc = "storage", !.log = <<RemoteCall("filesUpload", 0, Null, d.size)>>]
                ELSE [d EXCEPT !.pc = "sessionStart",
                               !.log = <<RemoteCall("filesUploadSessionStart", 0, Null, 0)>>]

\* OAuth lines 330-343, up to the exchange request.
AfterCode(c, code) ==
    IF code = NoCode /\ ~c.popup
    THEN StorageStep(c, "navigating")
    ELSE [c EXCEPT !.pc = "exchanging", !.code = code, !.fx = @ \cup {"exchange"}]

\* Promise.withResolvers: resolve/reject act on a pending promise only.
SettleAlways(a, status, value) ==
    [a EXCEPT !.status = status, !.events = Append(@, value)]

Settle(a, status, value) ==
    IF a.status = "pending"
    THEN [a EXCEPT !.status = status, !.events = Append(@, value)]
    ELSE [a EXCEPT !.late = 1]

\* #popupRedirectCleanup, run by OAuthPromise.finally once it is settled.
popupRedirectCleanup(a) == [a EXCEPT !.cleanups = @ + 1]

RemoveListener(ls, a) == SelectSeq(ls, LAMBDA x : x # a)

\* #OAuthRefreshToken line 56: the rejection that is recovered from.
IsInvalidGrantLoose(reason) == reason \in {"invalid_grant", "response_error"}

IsInvalidGrant(reason) == reason = "invalid_grant"

\* this.#tokenStorage?.saveToken(token): what the storage holds afterwards.
SaveTokenSkipped(storage, stored, token) == stored

SaveTokenNotOnClear(storage, stored, token) ==
    IF storage /\ token # Null THEN token ELSE stored

SaveToken(storage, stored, token) == IF storage THEN token ELSE stored

\* #OAuthCheckToken lines 81-84: the verdict on the echo call's outcome.
EchoVerdictAnyResponse(r) == r # "fail"

EchoVerdict(r) == r = "match"

\* OAuth line 321: `if (await this.#OAuthCheckToken()) { return; }`
ReturnsEarlyNever(authenticated) == FALSE

ReturnsEarly(authenticated) == authenticated

\* #OAuthNavigationRedirect lines 197-200, statement by statement: `ss` is
\* sessionStorage's <<OAuthState-appId, CodeVerifier-appId>>; atReplace is what
\* it holds when window.location.replace is called.
OAuthNavigationRedirectReplacesFirst(ss, OAuthState, verifier) ==
    [ss |-> <<OAuthState, verifier>>, atReplace |-> ss, result |-> NoCode]

OAuthNavigationRedirect(ss, OAuthState, verifier) ==
    LET ss1 == <<OAuthState, ss[2]>>
        ss2 == <<ss1[1], verifier>>
    IN  [ss |-> ss2, atReplace |-> ss2, result |-> NoCode]

\* OAuth lines 333-337: the access token after the exchange settled with `r`
\* (a rejection leaves line 337 unreached).
AccessTokenAfterEvenIfRejected(r, access_token, current) == access_token

AccessTokenAfter(r, access_token, current) == IF r = "ok" THEN access_token ELSE current

\* OAuth line 338: `if (offlineToken)`, the guard of lines 339-341.
StoresRefreshTokenAlways(offlineToken) == TRUE

StoresRefreshToken(offlineToken) == offlineToken

\* OAuth line 323: `timeout ??= DropboxCloud.OAUTH_TIMEOUT`
EffectiveTimeoutDefaultOnly(timeout) == OAUTH_TIMEOUT

EffectiveTimeout(timeout) == IF timeout = Null THEN OAUTH_TIMEOUT ELSE timeout

\* ------------------------------------------------------------ actions

authVars == <<accessToken, refreshToken, expiresAt>>
popupVars == <<att, listeners, win>>
sessVars == <<ssState, ssVerifier>>
pageVars == <<url, page, loads>>

\* #OAuthGetCode up to its first await (or to its return, on a redirect
\* return page), continued into OAuth lines 327-335. `c` is the call so far.
OAuthGetCode(p, c) ==
    IF url.has
    THEN LET h == OAuthRedirectHandler(ssState, url)
         IN  /\ codeVerifier' = ssVerifier
             /\ nstate' = nstate
             /\ call' = [call EXCEPT ![p] =
                    CASE h.outcome = "resolve" ->
                            AfterCode([c EXCEPT !.handled = Handled("navigation", ssState, url, h)],
                                      h.code)
                      [] h.outcome = "reject" ->
                            Fail([c EXCEPT !.handled = Handled("navigation", ssState, url, h)],
                                 "Error fetching OAuth Code.", h.reason)
                      [] OTHER -> Fail(c, "Error fetching OAuth Code.", h.reason)]
    ELSE /\ nstate < MaxAttempts
         /\ nstate' = nstate + 1
         /\ call' = [call EXCEPT ![p] =
                [c EXCEPT !.pc = "urlPending", !.st = nstate + 1, !.fx = @ \cup {"url"}]]
         /\ UNCHANGED codeVerifier

\* The state tokens that redirects have been compared with, line 102, for
\* call `c`.
CheckedAgainst(c) == IF c.handled.chan = "none" THEN {} ELSE {c.handled.expected}

\* An attempt whose promise can still settle. (The timer of a settled
\* attempt can only call the resolver of a settled promise.)
Referenced(a) == a.status = "pending"

\* A public operation is called: OAuth lines 320-325 and #OAuthCheckToken /
\* #OAuthRefreshToken up to the first remote call.
StartCall(p, op, timeoutArg, offlineArg, popupArg, size) ==
    /\ p <= conc
    /\ call[p].pc \in {"idle", "done", "failed"}
    /\ ncalls < MaxCalls
    /\ ncalls' = ncalls + 1
    /\ LET c == [IdleCall EXCEPT
                    !.op = op,
                    !.targ = timeoutArg,
                    !.timeout = EffectiveTimeout(timeoutArg),
                    !.offline = IF offlineArg = "default" THEN cfg.offline ELSE offlineArg = "yes",
                    !.popup = IF popupArg = "default" THEN cfg.popup ELSE popupArg = "yes",
                    !.size = size,
                    !.seen = call[p].seen \cup CheckedAgainst(call[p]),
                    !.snap = <<accessToken, refreshToken, persisted>>]
       IN  call' = [call EXCEPT ![p] =
                IF refreshToken # Null
                THEN [c EXCEPT !.pc = "refreshing"]
                ELSE [c EXCEPT !.pc = "checking", !.refresh = "true", !.echo = "sent"]]
    /\ att' = [a \in StateTokens |-> IF Referenced(att[a]) THEN att[a] ELSE NoAttempt]
    /\ UNCHANGED <<cfg, conc, persisted, sessVars, pageVars, authVars, codeVerifier,
                   nstate, listeners, win>>

\* checkAndRefreshAccessToken() settles: #OAuthRefreshToken lines 54-70.
\* On success the SDK may have renewed the access token (renewed # Null).
RefreshResponse(p, r, renewed) ==
    /\ call[p].pc = "refreshing"
    /\ r # "ok" => renewed = Null
    /\ LET c == [call[p] EXCEPT !.rr = r]
       IN  CASE r = "ok" ->
                  /\ accessToken' = IF renewed = Null THEN accessToken ELSE renewed
                  /\ expiresAt' = IF renewed = Null THEN expiresAt ELSE renewed
                  /\ call' = [call EXCEPT ![p] =
                        [c EXCEPT !.pc = "checking", !.refresh = "true", !.echo = "sent"]]
                  /\ UNCHANGED <<refreshToken, persisted, codeVerifier, nstate>>
             [] IsInvalidGrant(r) ->
                  /\ refreshToken' = Null
                  /\ persisted' = SaveToken(cfg.storage, persisted, Null)
                  /\ OAuthGetCode(p, [c EXCEPT
                        !.refresh = "false", !.check = "false",
                        !.saves = IF cfg.storage THEN Append(@, Null) ELSE @,
                        !.pre = <<accessToken, Null, expiresAt,
                                  SaveToken(cfg.storage, persisted, Null),
                                  IF cfg.storage THEN Len(c.saves) + 1 ELSE Len(c.saves)>>])
                  /\ UNCHANGED <<accessToken, expiresAt>>
             [] OTHER ->
                  /\ call' = [call EXCEPT ![p] =
                        Fail([c EXCEPT !.refresh = "threw", !.check = "threw"],
                             "Error refreshing token!", r)]
                  /\ UNCHANGED <<authVars, persisted, codeVerifier, nstate>>
    /\ UNCHANGED <<cfg, conc, sessVars, pageVars, ncalls, popupVars>>

\* checkUser({query}) settles: #OAuthCheckToken lines 81-84, then OAuth.
\* The service echoes only for a token it accepts.
CheckUserResponse(p, r) ==
    /\ call[p].pc = "checking"
    /\ r = "match" => accessToken # Null
    /\ LET c == [call[p] EXCEPT !.echo = r,
                                 !.check = IF EchoVerdict(r) THEN "true" ELSE "false"]
       IN  IF ReturnsEarly(EchoVerdict(r))
           THEN /\ call' = [call EXCEPT ![p] = StorageStep(c, "valid")]
                /\ UNCHANGED <<codeVerifier, nstate>>
           ELSE OAuthGetCode(p, [c EXCEPT
                    !.pre = <<accessToken, refreshToken, expiresAt, persisted, Len(c.saves)>>])
    /\ UNCHANGED <<cfg, conc, persisted, sessVars, pageVars, authVars, ncalls, popupVars>>

\* getAuthenticationUrl(...) settles: #OAuthGetCode lines 231-235, then
\* #OAuthPopupRedirect / #handlePopupRedirect or #OAuthNavigationRedirect.
AuthUrlResponse(p, r, blocked) ==
    /\ call[p].pc = "urlPending"
    /\ LET c == call[p]
           w == IF win # Null THEN win ELSE c.st
       IN  CASE r # "ok" ->
                  /\ ~blocked
                  /\ call' = [call EXCEPT ![p] = Fail(c, "Error fetching OAuth Code.", r)]
                  /\ UNCHANGED <<codeVerifier, sessVars, page, popupVars>>
             [] r = "ok" /\ c.popup /\ blocked ->
                  /\ codeVerifier' = c.st
                  /\ call' = [call EXCEPT ![p] =
                        Fail(c, "Error fetching OAuth Code.", "popup_blocked")]
                  /\ UNCHANGED <<sessVars, page, popupVars>>
             [] r = "ok" /\ c.popup /\ ~blocked ->
                  /\ codeVerifier' = c.st
                  /\ win' = w
                  /\ att' = [att EXCEPT ![c.st] =
                        [NoAttempt EXCEPT !.status = "pending", !.popup = w,
                                          !.timer = TRUE, !.owner = p,
                                          !.seconds = c.timeout,
                                          !.delay = c.timeout * 1000]]
                  /\ listeners' = Append(listeners, c.st)
                  /\ call' = [call EXCEPT ![p] =
                        [c EXCEPT !.pc = "awaitCode", !.fx = @ \cup {"popup"}]]
                  /\ UNCHANGED <<sessVars, page>>
             [] OTHER ->
                  /\ ~blocked
                  /\ codeVerifier' = c.st
                  /\ LET n == OAuthNavigationRedirect(<<ssState, ssVerifier>>, c.st, c.st)
                     IN  /\ ssState' = n.ss[1]
                         /\ ssVerifier' = n.ss[2]
                         /\ call' = [call EXCEPT ![p] =
                                AfterCode([c EXCEPT !.fx = @ \cup {"ss", "nav"},
                                                    !.navss = n.atReplace],
                                          n.result)]
                  /\ page' = "replaced"
                  /\ UNCHANGED popupVars
    /\ UNCHANGED <<cfg, conc, persisted, url, loads, authVars, nstate, ncalls>>

\* The promise of popup attempt `a` is asked to settle (by the message
\* handler or by the timer). When that takes effect, OAuthPromise.finally
\* runs #popupRedirectCleanup and the awaiting OAuth call goes on, all in the
\* same task: lines 136-139, 154, 327-335.
SettleAttempt(a, base, before, status, value, seen) ==
    LET after == Settle(before, status, value)
        took == Len(after.events) > Len(before.events)
        p == before.owner
    IN  IF took
        THEN /\ att' = [base EXCEPT ![a] = popupRedirectCleanup(after)]
             /\ listeners' = RemoveListener(listeners, a)
             /\ win' = IF win = before.popup THEN Null ELSE win
             /\ call' = [call EXCEPT ![p] =
                    IF status = "resolved"
                    THEN AfterCode([call[p] EXCEPT !.handled = seen], value)
                    ELSE Fail([call[p] EXCEPT !.handled = seen],
                              "Error fetching OAuth Code.", value)]
        ELSE /\ att' = [base EXCEPT ![a] = after]
             /\ call' = [call EXCEPT ![p].handled = seen]
             /\ UNCHANGED <<listeners, win>>

\* The listeners a message reaches and that do not ignore it
\* (#popupRedirectHandler lines 117-118), in registration order.
TakersAnySource(src, marker) == SelectSeq(listeners, LAMBDA a : marker)

Takers(src, marker) ==
    SelectSeq(listeners, LAMBDA a : marker /\ att[a].popup = src)

\* The message has no OAuthRedirect marker, or is not from the popup of `a`.
Spoofed(a, src, marker) == ~marker \/ att[a].popup # src

\* The attempts, with a note on each listener among the first n that was
\* called with a message of that kind.
MarkHeard(n, src, marker) ==
    [a \in StateTokens |->
        IF (\E i \in 1..n : listeners[i] = a) /\ Spoofed(a, src, marker)
        THEN [att[a] EXCEPT !.heard = 1]
        ELSE att[a]]

\* A 'message' event on the opener window: #popupRedirectHandler.
\* A handler that throws leaves everything as it was; the first handler that
\* does not throw stops the propagation.
Message(src, marker, redirectURL) ==
    /\ listeners # <<>>
    /\ LET takers == Takers(src, marker)
       IN  IF takers = <<>> \/ redirectURL.state.kind = "bad"
           THEN /\ att' = MarkHeard(Len(listeners), src, marker)
                /\ UNCHANGED <<listeners, win, call>>
           ELSE LET a == Head(takers)
                    h == OAuthRedirectHandler(a, redirectURL)
                    n == CHOOSE i \in 1..Len(listeners) : listeners[i] = a
                    base == MarkHeard(n, src, marker)
                IN  /\ SettleAttempt(a, base, base[a],
                            IF h.outcome = "resolve" THEN "resolved" ELSE "rejected",
                            IF h.outcome = "resolve" THEN h.code ELSE h.reason,
                            Handled("popup", a, redirectURL, h))
    /\ UNCHANGED <<cfg, conc, persisted, sessVars, pageVars, authVars, codeVerifier,
                   nstate, ncalls>>

\* The timer of attempt `a` fires: #popupTimeoutHandler, whose Error names
\* the `timeout` it was bound to.
Timeout(a) ==
    /\ att[a].timer
    /\ SettleAttempt(a, att, [att[a] EXCEPT !.timer = FALSE, !.named = att[a].seconds],
                     "rejected", "timeout",
                     call[att[a].owner].handled)
    /\ UNCHANGED <<cfg, conc, persisted, sessVars, pageVars, authVars, codeVerifier,
                   nstate, ncalls>>

\* getAccessTokenFromCode(...) settles: OAuth lines 333-343.
\* tokenInfo is bundle k; its refresh_token is rt (absent for an online grant).
ExchangeResponse(p, r, k, rt) ==
    /\ call[p].pc = "exchanging"
    /\ r = "ok" => call[p].code # NoCode
    /\ r # "ok" => k = 1 /\ rt = Null
    /\ rt \in {Null, k}
    /\ LET c == call[p]
       IN  IF r = "ok"
           THEN /\ accessToken' = AccessTokenAfter(r, k, accessToken)
                /\ refreshToken' = IF StoresRefreshToken(c.offline) THEN rt ELSE refreshToken
                /\ expiresAt' = IF StoresRefreshToken(c.offline) THEN k ELSE expiresAt
                /\ persisted' = IF StoresRefreshToken(c.offline)
                                THEN SaveToken(cfg.storage, persisted, rt)
                                ELSE persisted
                /\ call' = [call EXCEPT ![p] =
                        StorageStep([c EXCEPT
                            !.info = <<k, rt>>,
                            !.pre = IdleCall.pre,
                            !.saves = IF StoresRefreshToken(c.offline) /\ cfg.storage
                                      THEN Append(@, rt) ELSE @],
                            "exchanged")]
           ELSE /\ call' = [call EXCEPT ![p] =
                        Fail(c, "Error converting the OAuth Code to an OAuth Token.", r)]
                /\ accessToken' = AccessTokenAfter(r, k, accessToken)
                /\ UNCHANGED <<refreshToken, expiresAt, persisted>>
    /\ UNCHANGED <<cfg, conc, sessVars, pageVars, codeVerifier, nstate, ncalls,
                   popupVars>>

\* ------------------------------------------------------------- storage
AppendKind == "filesUploadSessionAppendV2"

Appends(log) == Len(SelectSeq(log, LAMBDA e : e.kind = AppendKind))

MarkLast(log, status) == [log EXCEPT ![Len(log)].status = status]

ErrorContext(op) ==
    CASE op = "fetchFileList" -> "Error fetching file list."
      [] op = "downloadFile" -> "Error downloading file."
      [] OTHER -> "Error uploading file."

\* A remote storage call rejects with `r`: the `.catch(catchCallback(...))` of
\* lines 355, 368 and 381 (an await inside #uploadLargeFile rethrows to it).
StorageFailedSwallowed(c, r) == [c EXCEPT !.pc = "done", !.log = MarkLast(@, r)]

StorageFailed(c, r) == Fail([c EXCEPT !.log = MarkLast(@, r)], ErrorContext(c.op), r)

\* #uploadLargeFile line 272: the cursor offset of chunk chunkIdx.
AppendOffsetNext(chunkIdx) == (chunkIdx + 1) * CHUNK_SIZE

AppendOffset(chunkIdx) == chunkIdx * CHUNK_SIZE

\* #uploadLargeFile lines 271-278: the next call of the session.
UploadLoop(c) ==
    LET chunkIdx == Appends(c.log)
    IN  IF chunkIdx < NumChunks(c.size)
        THEN [c EXCEPT !.pc = "append",
                       !.log = Append(@, RemoteCall(AppendKind, AppendOffset(chunkIdx), c.session,
                                    SliceSize(c.size, chunkIdx * CHUNK_SIZE,
                                              (chunkIdx + 1) * CHUNK_SIZE)))]
        ELSE [c EXCEPT !.pc = "finish",
                       !.log = Append(@, RemoteCall("filesUploadSessionFinish", c.size, c.session, 0))]

\* An awaited append settles: the loop goes on, or the rejection leaves it.
AppendSettledKeepGoing(c, r) ==
    UploadLoop([c EXCEPT !.log = MarkLast(@, r)])

AppendSettled(c, r) ==
    IF r = "ok"
    THEN UploadLoop([c EXCEPT !.log = MarkLast(@, "ok")])
    ELSE StorageFailed(c, r)

storageFrame == <<cfg, conc, persisted, sessVars, pageVars, authVars, codeVerifier,
                  nstate, ncalls, popupVars>>

\* filesListFolder / filesDownload / filesUpload settles.
StorageResponse(p, r) ==
    /\ call[p].pc = "storage"
    /\ call' = [call EXCEPT ![p] =
            IF r = "ok"
            THEN [@ EXCEPT !.pc = "done", !.log = MarkLast(@, "ok")]
            ELSE StorageFailed(@, r)]
    /\ UNCHANGED storageFrame

\* filesUploadSessionStart settles: line 269, then the first append.
SessionStartResponse(p, r, sid) ==
    /\ call[p].pc = "sessionStart"
    /\ r # "ok" => sid = 1
    /\ call' = [call EXCEPT ![p] =
            IF r = "ok"
            THEN UploadLoop([@ EXCEPT !.session = sid, !.log = MarkLast(@, "ok")])
            ELSE StorageFailed(@, r)]
    /\ UNCHANGED storageFrame

\* filesUploadSessionAppendV2 settles: line 273.
AppendResponse(p, r) ==
    /\ call[p].pc = "append"
    /\ call' = [call EXCEPT ![p] = AppendSettled(@, r)]
    /\ UNCHANGED storageFrame

\* filesUploadSessionFinish settles: line 278, then uploadFile 380-381.
FinishResponse(p, r) ==
    /\ call[p].pc = "finish"
    /\ call' = [call EXCEPT ![p] =
            IF r = "ok"
            THEN [@ EXCEPT !.pc = "done", !.log = MarkLast(@, "ok")]
            ELSE StorageFailed(@, r)]
    /\ UNCHANGED storageFrame

\* ---------------------------------------------------------------- page
\* A state token that is not `t`: state tokens are opaque, a redirect's token
\* matters only by whether it equals the stored one.
OtherToken(t) == IF t = 1 THEN MaxAttempts ELSE 1

\* The document is replaced (the navigation of window.location.replace
\* returns, or the page is opened anew): a new DropboxCloud is constructed;
\* sessionStorage and the token storage survive, everything else is gone.
PageLoad(newURL) ==
    /\ loads < MaxLoads
    /\ newURL.state.field \in {Undefined, Null, ssState, OtherToken(ssState)}
    /\ loads' = loads + 1
    /\ url' = newURL
    /\ page' = "loaded"
    /\ accessToken' = Null
    /\ refreshToken' = LoadToken(cfg.storage, persisted)
    /\ expiresAt' = Null
    /\ codeVerifier' = Null
    /\ ncalls' = ncalls
    /\ att' = [a \in StateTokens |-> NoAttempt]
    /\ listeners' = <<>>
    /\ win' = Null
    /\ call' = [p \in Slots |-> IdleCall]
    /\ UNCHANGED <<cfg, conc, persisted, sessVars, nstate>>

\* The URL of a message no handler reads.
AnyRedirect == [has |-> TRUE, code |-> "ABC", state |-> [kind |-> "obj", field |-> 1]]

Failures == {"response_error", "transport"}
Replies == {"ok"} \cup Failures
Args == {"default", "yes", "no"}

\* The responses of the authorization flow past the refresh, and what the
\* browser delivers: the popup's redirect messages and the timers.
PopupStep ==
    \/ \E p \in Slots, r \in {"match", "mismatch", "fail"} : CheckUserResponse(p, r)
    \/ \E p \in Slots, r \in Replies, blocked \in BOOLEAN : AuthUrlResponse(p, r, blocked)
    \/ \E u \in RedirectURLs : win # Null /\ Message(win, TRUE, u)
    \/ \E a \in StateTokens : Timeout(a)
    \/ \E p \in Slots, r \in Replies, k \in Tokens, rt \in {Null} \cup Tokens :
            ExchangeResponse(p, r, k, rt)

AuthStep ==
    \/ \E p \in Slots, r \in Replies \cup {"invalid_grant"}, k \in {Null} \cup Tokens :
            RefreshResponse(p, r, k)
    \/ PopupStep

\* Messages that no listener takes: from the popup without the OAuthRedirect
\* marker, or from another window. They change nothing but the note that a
\* listener was called with one.
SpoofStep ==
    \/ win # Null /\ Message(win, FALSE, AnyRedirect)
    \/ \E marker \in BOOLEAN : Message(OtherWindow, marker, AnyRedirect)

\* The page over its loads, authenticating: OAuth(timeout, offline, popup).
Next ==
    \/ \E p \in Slots, o \in Args, pr \in Args : StartCall(p, "OAuth", Null, o, pr, 0)
    \/ AuthStep
    \/ \E u \in URLs : PageLoad(u)

Spec == Init /\ [][Next]_vars

\* One page load on which the storage operations are called.
StartStorage(p, op, size) ==
    /\ ncalls < MaxUploads
    /\ op # "uploadFile" => size = 0
    /\ StartCall(p, op, Null, "default", "default", size)

UploadNext ==
    \/ \E p \in Slots, op \in Ops \ {"OAuth"}, size \in FileSizes : StartStorage(p, op, size)
    \/ AuthStep
    \/ \E p \in Slots, r \in Replies : StorageResponse(p, r)
    \/ \E p \in Slots, r \in Replies, sid \in Tokens : SessionStartResponse(p, r, sid)
    \/ \E p \in Slots, r \in Replies : AppendResponse(p, r)
    \/ \E p \in Slots, r \in Replies : FinishResponse(p, r)

UploadSpec == Init /\ [][UploadNext]_vars

\* The page that a navigation attempt comes back to: the document after
\* #OAuthNavigationRedirect (lines 197-199) stored state token 1 with its
\* verifier and replaced the page, whatever URL the provider redirected to.
ReturnInit ==
    /\ cfg \in [storage : BOOLEAN, offline : BOOLEAN, popup : BOOLEAN]
    /\ conc = 1
    /\ persisted \in (IF cfg.storage THEN {Null} \cup Tokens ELSE {Null})
    /\ ssState = 1
    /\ ssVerifier = 1
    /\ url \in {u \in URLs : u.state.field \in {Undefined, Null, 1, OtherToken(1)}}
    /\ page = "loaded"
    /\ loads = 1
    /\ accessToken = Null
    /\ refreshToken = LoadToken(cfg.storage, persisted)
    /\ expiresAt = Null
    /\ codeVerifier = Null
    /\ nstate = 1
    /\ ncalls = 0
    /\ att = [a \in StateTokens |-> NoAttempt]
    /\ listeners = <<>>
    /\ win = Null
    /\ call = [p \in Slots |-> IdleCall]

ReturnNext ==
    \/ \E p \in Slots, o \in Args, pr \in Args : StartCall(p, "OAuth", Null, o, pr, 0)
    \/ AuthStep

ReturnSpec == ReturnInit /\ [][ReturnNext]_vars

\* One page load of an instance without token storage, in online popup mode,
\* on which the caller lets two OAuth calls overlap.
ConcInit ==
    /\ cfg = [storage |-> FALSE, offline |-> FALSE, popup |-> TRUE]
    /\ conc = 2
    /\ persisted = Null
    /\ ssState = Null
    /\ ssVerifier = Null
    /\ url = NoParams
    /\ page = "loaded"
    /\ loads = 0
    /\ accessToken = Null
    /\ refreshToken = LoadToken(cfg.storage, persisted)
    /\ expiresAt = Null
    /\ codeVerifier = Null
    /\ nstate = 0
    /\ ncalls = 0
    /\ att = [a \in StateTokens |-> NoAttempt]
    /\ listeners = <<>>
    /\ win = Null
    /\ call = [p \in Slots |-> IdleCall]

ConcNext ==
    \/ \E p \in Slots : StartCall(p, "OAuth", Null, "default", "default", 0)
    \/ PopupStep
    \/ SpoofStep

ConcSpec == ConcInit /\ [][ConcNext]_vars

\* One page load on which OAuth is called with a timeout of the caller's;
\* the browser fires every timer it has armed.
PopupNext ==
    \/ \E p \in Slots, t \in Timeouts, pr \in Args : StartCall(p, "OAuth", t, "default", pr, 0)
    \/ AuthStep

PopupSpec ==
    Init /\ [][PopupNext]_vars /\ \A a \in StateTokens : WF_vars(Timeout(a))

\* ================================================================ claims

Settled(a) == a.status \in {"resolved", "rejected"}

\* C1: whenever #OAuthRedirectHandler has looked at a redirect for a call,
\* on the popup or on the navigation channel, and the redirect's decoded
\* `state` field differs from the issued/stored state token, the attempt was
\* rejected with the mismatch error and the call never went on to use a
\* code; a call goes on with a code only when the handler saw the two equal,
\* and then with that redirect's code.
C1_MismatchRejects ==
    \A p \in Slots :
        LET c == call[p]
            h == c.handled
        IN  /\ (h.chan # "none" /\ h.got # h.expected) =>
                    /\ h.outcome = "reject"
                    /\ c.pc = "failed"
                    /\ c.err = [msg |-> "Error fetching OAuth Code.",
                                cause |-> "mismatch", detail |-> FALSE]
                    /\ "exchange" \notin c.fx
                    /\ c.auth = "none"
            /\ ("exchange" \in c.fx \/ (c.auth \in {"exchanged", "navigating"} /\ h.chan # "none")) =>
                    /\ h.outcome = "resolve"
                    /\ h.got = h.expected
                    /\ "exchange" \in c.fx => c.code = h.code

C1_Witness ==
    \E p \in Slots :
        /\ call[p].handled.chan = "popup"
        /\ call[p].handled.got # call[p].handled.expected
        /\ call[p].handled.got \in StateTokens
        /\ call[p].pc = "failed"

C1_WitnessNavigation ==
    \E p \in Slots :
        /\ call[p].handled.chan = "navigation"
        /\ call[p].handled.got # call[p].handled.expected
        /\ call[p].handled.expected \in StateTokens
        /\ call[p].pc = "failed"

\* C2: for every popup attempt for which a popup was obtained, in every
\* state: at most one terminal event (resolve with a code, mismatch
\* rejection, timeout rejection) has taken effect and the cleanup has run at
\* most once; the promise is settled exactly when one terminal event took
\* effect, and then the cleanup has run exactly once, the listener is
\* removed and the popup closed; while it is pending nothing has been cleaned
\* up and its timer is still armed, so that a terminal event is still to
\* come. A timer firing after settlement changes none of this.
C2_OneTerminalEvent ==
    \A a \in StateTokens :
        att[a].status # "none" =>
            /\ Len(att[a].events) <= 1
            /\ att[a].cleanups <= 1
            /\ Settled(att[a]) <=> Len(att[a].events) = 1
            /\ Settled(att[a]) =>
                    /\ att[a].cleanups = 1
                    /\ \A i \in 1..Len(listeners) : listeners[i] # a
                    /\ win # att[a].popup
            /\ att[a].status = "pending" =>
                    /\ att[a].cleanups = 0
                    /\ att[a].timer
                    /\ \E i \in 1..Len(listeners) : listeners[i] = a
                    /\ win = att[a].popup
            /\ (att[a].status = "resolved") <=>
                    (call[att[a].owner].handled.outcome = "resolve"
                        /\ call[att[a].owner].handled.expected = a)

\* The timer fired after a redirect message had resolved the attempt.
C2_Witness ==
    \E a \in StateTokens :
        /\ att[a].status = "resolved"
        /\ att[a].late = 1
        /\ ~att[a].timer
        /\ att[a].cleanups = 1

\* C3: when a refresh token is held and the refresh endpoint rejects with
\* "invalid grant", the step that handles it makes the refresh operation
\* return false, throws no refresh error, leaves the in-memory refresh token
\* absent and, with a storage capability, has asked it to save an absent
\* token (it now holds none).
C3_InvalidGrantClears ==
    [][\A p \in Slots :
        (call[p].pc = "refreshing" /\ call'[p].rr = "invalid_grant") =>
            /\ refreshToken # Null
            /\ call'[p].refresh = "false"
            /\ call'[p].err.msg # "Error refreshing token!"
            /\ refreshToken' = Null
            /\ cfg.storage => persisted' = Null /\ call'[p].saves = <<Null>>
            /\ ~cfg.storage => persisted' = persisted /\ call'[p].saves = <<>>]_vars

\* A stored refresh token was found dead and has been cleared from storage.
C3_Witness ==
    \E p \in Slots :
        /\ call[p].rr = "invalid_grant"
        /\ call[p].refresh = "false"
        /\ call[p].snap[3] # Null
        /\ call[p].saves = <<Null>>
        /\ persisted = Null
        /\ refreshToken = Null

\* C4: when a refresh token is held and the refresh endpoint rejects with
\* any other kind, the step that handles it rejects the operation with the
\* fatal error "Error refreshing token!" whose cause is that rejection, and
\* changes neither the in-memory refresh token nor the persisted token, and
\* saves nothing.
C4_OtherFailurePropagates ==
    [][\A p \in Slots :
        (call[p].pc = "refreshing" /\ call'[p].rr \in Failures) =>
            /\ call'[p].refresh = "threw"
            /\ call'[p].pc = "failed"
            /\ call'[p].err = [msg |-> "Error refreshing token!", cause |-> call'[p].rr,
                               detail |-> call'[p].rr = "response_error"]
            /\ refreshToken' = refreshToken
            /\ refreshToken' # Null
            /\ persisted' = persisted
            /\ call'[p].saves = <<>>]_vars

C4_Witness ==
    \E p \in Slots :
        /\ call[p].rr = "transport"
        /\ call[p].pc = "failed"
        /\ call[p].err.cause = "transport"
        /\ refreshToken # Null
        /\ cfg.storage /\ persisted = refreshToken

\* C5 (as claimed): the liveness check never throws, whatever the refresh
\* endpoint and the echo endpoint answer.
C5_NeverThrows == \A p \in Slots : call[p].check # "threw"

\* C5 (amended): the liveness check returns a boolean for every outcome of the
\* echo call: true only when the echo equals the probe, false on a
\* mismatched echo or a transport failure; it is false with no echo call
\* when the refresh step returned false; and it rejects only when the
\* refresh step rejected (a refresh failure other than "invalid grant"), with
\* that step's fatal error and without an echo call.
C5_EchoNeverThrows ==
    \A p \in Slots :
        LET c == call[p]
        IN  /\ c.check = "true" <=> c.echo = "match"
            /\ c.echo \in {"mismatch", "fail"} => c.check = "false"
            /\ c.refresh = "false" => c.check = "false" /\ c.echo = "none"
            /\ c.check = "false" => c.refresh = "false" \/ c.echo \in {"mismatch", "fail"}
            /\ c.check = "threw" <=> c.refresh = "threw"
            /\ c.check = "threw" =>
                    /\ c.rr \in Failures
                    /\ c.echo = "none"
                    /\ c.err.msg = "Error refreshing token!"

\* The echo call failed in transport and the check answered false: the call
\* went on to authorize.
C5_Witness ==
    \E p \in Slots :
        /\ call[p].echo = "fail"
        /\ call[p].check = "false"
        /\ call[p].pc = "urlPending"

\* C10 (as claimed): when the liveness check reports authenticated, the call
\* requests no authorization URL, opens no popup, navigates nowhere, writes
\* no session storage, exchanges no code, and the access token, the refresh
\* token and the persisted token are what they were when it was called.
C10_NoOpAllTokens ==
    \A p \in Slots :
        call[p].check = "true" =>
            /\ call[p].pc = "done"
            /\ call[p].fx = {}
            /\ call[p].saves = <<>>
            /\ <<accessToken, refreshToken, persisted>> = call[p].snap

\* C10 (amended): the same, except that the access token may have been
\* renewed by the refresh step of the liveness check itself (never by a code
\* exchange); the refresh token and the persisted token are unchanged.
C10_NoOpButRenewal ==
    \A p \in Slots :
        call[p].check = "true" =>
            /\ call[p].pc = "done"
            /\ call[p].auth = "valid"
            /\ call[p].fx = {}
            /\ call[p].saves = <<>>
            /\ refreshToken = call[p].snap[2]
            /\ persisted = call[p].snap[3]
            /\ accessToken # call[p].snap[1] => call[p].rr = "ok" /\ call[p].snap[2] # Null

\* The second call on a page finds the session valid (the first one obtained
\* it by a code exchange) and does nothing.
C10_Witness ==
    \E p \in Slots :
        /\ call[p].check = "true"
        /\ call[p].pc = "done"
        /\ ncalls = 2
        /\ call[p].snap[1] # Null
        /\ accessToken = call[p].snap[1]

\* ---------------------------------------------------------------- storage operations
SessionKinds == {"filesUploadSessionStart", AppendKind, "filesUploadSessionFinish"}

\* ceil(S / C), by its definition: the least n with n * C >= S.
CeilDiv(S, C) == CHOOSE n \in 0..(S \div C + 1) : n * C >= S /\ (n = 0 \/ (n - 1) * C < S)

Chunked(c) == c.op = "uploadFile" /\ c.log # <<>> /\ c.log[1].kind = "filesUploadSessionStart"

\* C6 (as claimed): a storage operation has issued a remote storage call only
\* if its authenticate step found a valid session or exchanged a code for a
\* token, and the instance holds an access token.
C6_StorageOnlyAuthenticated ==
    \A p \in Slots :
        call[p].log # <<>> =>
            /\ call[p].auth \in {"valid", "exchanged"}
            /\ accessToken # Null

\* C7: an upload on the chunked path, of size S, has issued, in this order:
\* one session start; then appends with offsets 0, C, 2C, ..., each carrying
\* the session handle that the session start returned; then, after
\* ceil(S/C) appends, one finish with offset S and the same handle; nothing
\* else; and a completed upload has issued all of them.
C7_ChunkedSequence ==
    \A p \in Slots :
        LET c == call[p]
            n == CeilDiv(c.size, CHUNK_SIZE)
        IN  Chunked(c) =>
                /\ Len(c.log) <= n + 2
                /\ \A i \in 2..Len(c.log) :
                        /\ c.log[1].status = "ok"
                        /\ c.log[i].session = c.session
                        /\ i <= n + 1 =>
                                /\ c.log[i].kind = AppendKind
                                /\ c.log[i].offset = (i - 2) * CHUNK_SIZE
                        /\ i = n + 2 =>
                                /\ c.log[i].kind = "filesUploadSessionFinish"
                                /\ c.log[i].offset = c.size
                /\ c.pc = "done" => Len(c.log) = n + 2
                /\ c.pc = "finish" => Len(c.log) = n + 2

\* A file one byte over the threshold, uploaded: 13 appends, the last at
\* offset 12 C, and the finish at offset S.
C7_Witness ==
    \E p \in Slots :
        /\ Chunked(call[p])
        /\ call[p].size = FILE_SIZE_LIMIT + 1
        /\ call[p].pc = "done"
        /\ Len(call[p].log) = 15
        /\ call[p].log[14].offset = 12 * CHUNK_SIZE
        /\ call[p].log[15].offset = FILE_SIZE_LIMIT + 1

\* C8: once uploadFile has issued a remote call, a file below the threshold
\* has exactly one call, a single-request upload, and no session call; a
\* file at or above the threshold has session calls only.
C8_PathBySize ==
    \A p \in Slots :
        LET c == call[p]
        IN  (c.op = "uploadFile" /\ c.log # <<>>) =>
                /\ c.size < FILE_SIZE_LIMIT =>
                        /\ Len(c.log) = 1
                        /\ c.log[1].kind = "filesUpload"
                /\ c.size >= FILE_SIZE_LIMIT =>
                        /\ c.log[1].kind = "filesUploadSessionStart"
                        /\ \A i \in 1..Len(c.log) : c.log[i].kind \in SessionKinds

C8_Witness ==
    \E p \in Slots :
        /\ call[p].op = "uploadFile"
        /\ call[p].size = FILE_SIZE_LIMIT - 1
        /\ call[p].pc = "done"
        /\ call[p].log[1].kind = "filesUpload"

C8_WitnessAtThreshold ==
    \E p \in Slots :
        /\ call[p].op = "uploadFile"
        /\ call[p].size = FILE_SIZE_LIMIT
        /\ call[p].pc = "done"
        /\ call[p].log[1].kind = "filesUploadSessionStart"

\* C9: of the calls of one upload session at most one is in flight, and it
\* is the last one issued: every call before it has completed successfully
\* (so append k+1 is issued after append k succeeded, and the finish after
\* the last append succeeded).
C9_AppendsSequential ==
    \A p \in Slots :
        LET c == call[p]
        IN  Chunked(c) =>
                /\ \A i \in 1..(Len(c.log) - 1) : c.log[i].status = "ok"
                /\ Cardinality({i \in 1..Len(c.log) : c.log[i].status = "inflight"}) <= 1
                /\ c.log[Len(c.log)].status = "inflight" <=> c.pc \in {"sessionStart", "append", "finish"}

C9_Witness ==
    \E p \in Slots :
        /\ Chunked(call[p])
        /\ call[p].pc = "append"
        /\ Appends(call[p].log) >= 2
        /\ call[p].log[Len(call[p].log)].status = "inflight"
        /\ call[p].log[Len(call[p].log) - 1].status = "ok"

\* ---------------------------------------------------------------- timeout

\* The attempt was rejected by its timer, the Error names `seconds`, the
\* popup is closed and the listener removed.
TimedOut(a, seconds) ==
    /\ att[a].status = "rejected"
    /\ att[a].events = <<"timeout">>
    /\ att[a].named = seconds
    /\ att[a].delay = seconds * 1000
    /\ att[a].cleanups = 1
    /\ win # att[a].popup
    /\ \A i \in 1..Len(listeners) : listeners[i] # a
    /\ call[att[a].owner].pc = "failed"
    /\ call[att[a].owner].err.cause = "timeout"

SettledByMessage(a) ==
    /\ Settled(att[a])
    /\ call[att[a].owner].handled.chan = "popup"
    /\ call[att[a].owner].handled.expected = a

\* C11: a pending popup attempt does not stay pending: unless a redirect
\* message from the popup settles it first, it is eventually rejected by its
\* timer, with the timeout error that names the call's timeout (the argument,
\* or 120 when none was given), and at that point the popup is closed and
\* the message listener removed.
C11_TimeoutEventually ==
    \A a \in StateTokens : \A t \in Timeouts :
        (att[a].status = "pending" /\ call[att[a].owner].targ = t)
            ~> (SettledByMessage(a) \/ TimedOut(a, IF t = Null THEN 120 ELSE t))

\* An attempt of a call given 1 second timed out, no message having been
\* handled for it.
C11_Witness ==
    \E a \in StateTokens :
        /\ TimedOut(a, 1)
        /\ call[att[a].owner].targ = 1
        /\ call[att[a].owner].handled.chan = "none"

\* ---------------------------------------------------------------- navigation

\* The page was loaded with code=ABC and the state token that a navigation
\* attempt had stored.
ReturnPage ==
    /\ page = "loaded"
    /\ url.has
    /\ url.code = "ABC"
    /\ ssState \in StateTokens
    /\ url.state.kind = "obj"
    /\ url.state.field = ssState

\* C12: on a page loaded with code=ABC and a state whose `state` field is
\* the stored state token s, a call that gets as far as acquiring a code
\* (it is not already authenticated, its refresh did not fail) has resolved
\* the code ABC through the navigation channel and goes on to exchange it;
\* the code verifier is the stored verifier v, the one stored with s; and
\* the call has requested no authorization URL, opened no popup, written no
\* session storage and navigated nowhere.
C12_NavigationRoundTrip ==
    \A p \in Slots :
        (ReturnPage /\ call[p].check = "false") =>
            /\ call[p].handled = [chan |-> "navigation", expected |-> ssState,
                                  got |-> ssState, outcome |-> "resolve", code |-> "ABC"]
            /\ call[p].code = "ABC"
            /\ call[p].fx = {"exchange"}
            /\ call[p].pc \in {"exchanging", "done", "failed"}
            /\ call[p].pc = "failed" =>
                    call[p].err.msg = "Error converting the OAuth Code to an OAuth Token."
            /\ codeVerifier = ssVerifier
            /\ ssVerifier = ssState
            /\ listeners = <<>> /\ win = Null

C12_Witness ==
    \E p \in Slots :
        /\ ReturnPage
        /\ loads = 1
        /\ call[p].handled.chan = "navigation"
        /\ call[p].code = "ABC"
        /\ call[p].pc = "exchanging"
        /\ codeVerifier = ssState

\* C13 (as claimed): a call never resolves a code by matching a redirect
\* against a state token that an earlier call on the same instance has
\* already compared a redirect with.
C13_StateTokenUsedOnce ==
    \A p \in Slots :
        (call[p].handled.outcome = "resolve" /\ call[p].handled.expected \in StateTokens) =>
            call[p].handled.expected \notin call[p].seen

\* ---------------------------------------------------------------- token stores

\* C14: the step in which a code exchange succeeds, with result `info`
\* (access token, refresh token), sets the access token to the result's;
\* when the call's effective offline flag is true it sets the refresh token
\* and the expiry from the result and, with a storage capability, saves the
\* result's refresh token; when the flag is false the refresh token, the
\* expiry and the persisted token are unchanged and nothing is saved.
C14_ExchangeStores ==
    [][\A p \in Slots :
        (call[p].pc = "exchanging" /\ call'[p].auth = "exchanged") =>
            LET info == call'[p].info
            IN  /\ accessToken' = info[1]
                /\ accessToken' # Null
                /\ call[p].offline =>
                        /\ refreshToken' = info[2]
                        /\ expiresAt' = info[1]
                        /\ persisted' = (IF cfg.storage THEN info[2] ELSE persisted)
                        /\ call'[p].saves = (IF cfg.storage THEN Append(call[p].saves, info[2])
                                             ELSE call[p].saves)
                /\ ~call[p].offline =>
                        /\ refreshToken' = refreshToken
                        /\ expiresAt' = expiresAt
                        /\ persisted' = persisted
                        /\ call'[p].saves = call[p].saves]_vars

\* An online exchange whose result carried a refresh token: the refresh
\* token held before is still there, the storage was not called.
C14_Witness ==
    \E p \in Slots :
        /\ call[p].auth = "exchanged"
        /\ ~call[p].offline
        /\ call[p].info[2] # Null
        /\ accessToken = call[p].info[1]
        /\ cfg.storage
        /\ call[p].saves = <<>>
        /\ persisted = call[p].snap[3]

C14_WitnessOffline ==
    \E p \in Slots :
        /\ call[p].auth = "exchanged"
        /\ call[p].offline
        /\ cfg.storage
        /\ call[p].saves = <<call[p].info[2]>>
        /\ persisted = call[p].info[2]
        /\ persisted # call[p].snap[3]

\* C15: with a storage capability, the in-memory refresh token is what the
\* storage holds, in every state; the storage is read only when an instance
\* is constructed (a page load sets the refresh token to the stored one);
\* and in every other step, a refresh token that changes was saved in that
\* step, and a save made in that step saved the refresh token as it now is.
C15_StorageMirrors ==
    /\ [](cfg.storage => persisted = refreshToken)
    /\ [][/\ loads' # loads => refreshToken' = (IF cfg.storage THEN persisted ELSE Null)
          /\ (loads' = loads /\ cfg.storage) =>
                /\ refreshToken' # refreshToken =>
                        \E p \in Slots :
                            call'[p].saves = Append(call[p].saves, refreshToken')
                /\ \A p \in Slots :
                        Len(call'[p].saves) > Len(call[p].saves) =>
                            /\ call'[p].saves = Append(call[p].saves, refreshToken')
                            /\ persisted' = refreshToken']_vars

\* A stored refresh token was found dead and cleared, then a new one was
\* obtained by an offline exchange and saved.
C15_Witness ==
    \E p \in Slots :
        /\ cfg.storage
        /\ Len(call[p].saves) = 2
        /\ call[p].saves[1] = Null
        /\ call[p].saves[2] # Null
        /\ persisted = call[p].saves[2]
        /\ refreshToken = persisted

\* C16 (as claimed): a call that acquired a code acquired it through the
\* channel of its effective popup flag: through the popup channel, having
\* built an authorization URL and opened a popup, when the flag is true;
\* through the navigation channel when it is false.
C16_ChannelByFlag ==
    \A p \in Slots :
        call[p].handled.outcome = "resolve" =>
            /\ call[p].popup =>
                    /\ call[p].handled.chan = "popup"
                    /\ {"url", "popup"} \subseteq call[p].fx
            /\ ~call[p].popup => call[p].handled.chan = "navigation"

\* ---------------------------------------------------------------- upload session

RECURSIVE Committed(_, _)
\* The bytes a session has committed once the first n calls of `log` are done.
Committed(log, n) == IF n = 0 THEN 0 ELSE Committed(log, n - 1) + log[n].bytes

\* C17: in a chunked upload every append carries as offset the bytes
\* committed by the appends before it, and the finish the bytes committed by
\* all the appends, which is the file's size: a session that accepts a call
\* only at its cursor accepts each of them.
C17_OffsetsContiguous ==
    \A p \in Slots :
        LET c == call[p]
        IN  Chunked(c) =>
                /\ \A i \in 2..Len(c.log) : c.log[i].offset = Committed(c.log, i - 1)
                /\ \A i \in 2..Len(c.log) :
                        c.log[i].kind = "filesUploadSessionFinish" =>
                            /\ i = Len(c.log)
                            /\ Committed(c.log, i - 1) = c.size
                            /\ \A j \in 2..(i - 1) : c.log[j].bytes > 0

\* A file of 13 chunks and one byte is uploaded: the 14th append carries one
\* byte at offset 13 C.
C17_Witness ==
    \E p \in Slots :
        /\ Chunked(call[p])
        /\ call[p].size = MinChunks * CHUNK_SIZE + 1
        /\ call[p].pc = "done"
        /\ call[p].log[Len(call[p].log) - 1].bytes = 1
        /\ call[p].log[Len(call[p].log) - 1].offset = MinChunks * CHUNK_SIZE

\* C18: in an upload a remote call that failed is the last call issued
\* (after a failed session start, append or finish nothing more is sent),
\* every call before it succeeded, and uploadFile has rejected with the
\* upload error whose cause is the cause that call failed with; the same for
\* a failed single-request upload.
C18_FailureStops ==
    \A p \in Slots :
        LET c == call[p]
        IN  (c.op = "uploadFile" /\ c.log # <<>>) =>
                /\ \A i \in 1..(Len(c.log) - 1) : c.log[i].status = "ok"
                /\ c.log[Len(c.log)].status \in Failures =>
                        /\ c.pc = "failed"
                        /\ c.err = [msg |-> "Error uploading file.",
                                    cause |-> c.log[Len(c.log)].status,
                                    detail |-> c.log[Len(c.log)].status = "response_error"]
                /\ c.pc = "failed" => c.log[Len(c.log)].status \in Failures
                /\ c.pc = "done" => c.log[Len(c.log)].status = "ok"

\* The third append failed in transport.
C18_Witness ==
    \E p \in Slots :
        /\ Chunked(call[p])
        /\ Len(call[p].log) = 4
        /\ call[p].log[4].kind = AppendKind
        /\ call[p].log[4].status = "transport"
        /\ call[p].pc = "failed"
        /\ call[p].err.cause = "transport"

C18_WitnessSmall ==
    \E p \in Slots :
        /\ call[p].op = "uploadFile"
        /\ Len(call[p].log) = 1
        /\ call[p].log[1].kind = "filesUpload"
        /\ call[p].log[1].status = "response_error"
        /\ call[p].pc = "failed"

\* ---------------------------------------------------------------- ignored messages

Registered(a) == \E i \in 1..Len(listeners) : listeners[i] = a

Position(a) == CHOOSE i \in 1..Len(listeners) : listeners[i] = a

\* C19: a step in which the listener of an attempt is called with a message
\* that lacks the redirect marker or does not come from the attempt's popup
\* changes nothing of the attempt but the note of it: the attempt stays
\* pending with no terminal event and no cleanup, its timer armed, its
\* listener registered, its popup open, its call where it was; and the
\* message went on to the listeners registered after it (each of them with
\* the same popup, not noted before, is noted in that step too).
C19_IgnoredMessage ==
    [][\A a \in StateTokens :
        (att[a].heard = 0 /\ att'[a].heard = 1) =>
            /\ att[a].status = "pending"
            /\ att'[a] = [att[a] EXCEPT !.heard = 1]
            /\ Registered(a)
            /\ \E i \in 1..Len(listeners') : listeners'[i] = a
            /\ win = att[a].popup => win' = win
            /\ call'[att[a].owner] = call[att[a].owner]
            /\ \A j \in (Position(a) + 1)..Len(listeners) :
                    LET b == listeners[j]
                    IN  (att[b].heard = 0 /\ att[b].popup = att[a].popup) => att'[b].heard = 1]_vars

\* Two overlapping attempts, both still pending, both called with an
\* ignored message.
C19_Witness ==
    \E a, b \in StateTokens :
        /\ a # b
        /\ Len(listeners) = 2
        /\ att[a].status = "pending" /\ att[a].heard = 1
        /\ att[b].status = "pending" /\ att[b].heard = 1
        /\ win = att[a].popup

\* ---------------------------------------------------------------- fresh navigation

\* C20: the step in which a call starts a fresh navigation attempt (the
\* authorization URL arrived, the effective popup flag is false): when the
\* page is replaced, session storage already holds the call's state token and
\* the PKCE verifier, and holds them afterwards; from there the call returns
\* without error and without an exchange request, and that step changes
\* neither the access token, the refresh token nor the persisted token, and
\* saves nothing.
C20_FreshNavigation ==
    [][\A p \in Slots :
        (call[p].pc = "urlPending" /\ "nav" \in call'[p].fx) =>
            /\ ~call[p].popup
            /\ call[p].st \in StateTokens
            /\ call'[p].navss = <<call[p].st, codeVerifier'>>
            /\ <<ssState', ssVerifier'>> = call'[p].navss
            /\ page' = "replaced"
            /\ call'[p].pc = "done"
            /\ call'[p].err = NoErr
            /\ "exchange" \notin call'[p].fx
            /\ call'[p].fx = {"url", "ss", "nav"}
            /\ accessToken' = accessToken
            /\ refreshToken' = refreshToken
            /\ persisted' = persisted
            /\ call'[p].saves = call[p].saves]_vars

\* A second navigation attempt: the stored state token was replaced by the
\* new one before the page was replaced.
C20_Witness ==
    \E p \in Slots :
        /\ page = "replaced"
        /\ call[p].pc = "done"
        /\ call[p].auth = "navigating"
        /\ call[p].navss = <<ssState, ssVerifier>>
        /\ ssState = call[p].st
        /\ ssState = 2

\* ---------------------------------------------------------------- failed authentication

AcquisitionErrors ==
    {"Error fetching OAuth Code.", "Error converting the OAuth Code to an OAuth Token."}

\* C21: a call that rejected with the code-acquisition error (the
\* authorization-URL request failed, no popup could be created, the state
\* mismatched, the timer fired) or with the code-exchange error has, from the
\* point where it set out to acquire a code, changed neither the access
\* token, the refresh token, the expiry nor the persisted token, and has
\* called saveToken no more.
C21_FailureWritesNothing ==
    \A p \in Slots :
        (call[p].pc = "failed" /\ call[p].err.msg \in AcquisitionErrors) =>
            /\ call[p].auth = "none"
            /\ accessToken = call[p].pre[1]
            /\ refreshToken = call[p].pre[2]
            /\ expiresAt = call[p].pre[3]
            /\ persisted = call[p].pre[4]
            /\ Len(call[p].saves) = call[p].pre[5]

\* The exchange of a code obtained through the popup was rejected, on an
\* instance holding a refresh token.
C21_Witness ==
    \E p \in Slots :
        /\ call[p].pc = "failed"
        /\ call[p].err.msg = "Error converting the OAuth Code to an OAuth Token."
        /\ call[p].handled.chan = "popup"
        /\ refreshToken # Null
        /\ refreshToken = call[p].pre[2]

\* C22 (as claimed): on a page whose URL carries a code and a state while
\* session storage holds no state token, no call resolves the code and none
\* requests a code exchange, whatever the decoded `state` field is.
C22_NoStoredStateNoCode ==
    \A p \in Slots :
        (url.has /\ url.code # NoCode /\ ssState = Null) =>
            /\ call[p].handled.outcome # "resolve"
            /\ call[p].code = NoCode
            /\ "exchange" \notin call[p].fx

\* C23 (as claimed): no attempt is rejected for a popup message whose state
\* is the state token of another attempt that is pending (and that the
\* message, its propagation stopped, has not reached).
C23_MessageReachesItsAttempt ==
    \A p \in Slots :
        LET h == call[p].handled
        IN  (h.chan = "popup" /\ h.outcome = "reject" /\ h.got \in StateTokens) =>
                att[h.got].status # "pending"

====
